---------------------------- MODULE Spec2Model ----------------------------
(***************************************************************************)
(* A model of ipres_package_cloud/lint_ft.py: the ten structural           *)
(* predicates over a package directory, lint_package, which folds them     *)
(* into a verdict, parse_args, which builds the candidate collection, and  *)
(* main, which lints a batch and prints a summary.                         *)
(*                                                                         *)
(* File and directory names are sequences of one-character strings, so     *)
(* that str.startswith and re.fullmatch are computed and not assumed.  A   *)
(* path is a sequence of names relative to the package directory.          *)
(***************************************************************************)
EXTENDS Naturals, Sequences, FiniteSets

VARIABLES
    package,      \* lint_package's argument: [name, tree]
    lintPc,       \* position inside lint_package
    testIdx,      \* index of the next test in the list being looped over
    result,       \* lint_package's local `result`
    log,          \* the records LOGGER has emitted
    calls,        \* the predicates invoked so far, with what each one did
    argv,         \* sys.argv[1:], grouped by option
    optIdx,       \* index of the next option group parse_args consumes
    packages,     \* args.packages: [none |-> BOOLEAN, items |-> sequence]
    mainPc,       \* position inside main
    pkgIdx,       \* index of the next element of args.packages
    counter,      \* main's `counter`
    valid,        \* main's `valid`
    invalid,      \* main's `invalid`
    needs_review, \* main's `needs_review`
    verdicts,     \* what lint_package returned for each input, in order
    stdout        \* what main has printed

lintVars == <<package, lintPc, testIdx, result, log, calls>>
argVars  == <<argv, optIdx, packages>>
mainVars == <<mainPc, pkgIdx, counter, valid, invalid, needs_review, verdicts, stdout>>
vars     == <<package, lintPc, testIdx, result, log, calls, argv, optIdx, packages,
              mainPc, pkgIdx, counter, valid, invalid, needs_review, verdicts, stdout>>

---------------------------------------------------------------------------
(* Names *)

n_objects == <<"o", "b", "j", "e", "c", "t", "s">>
n_metadata == <<"m", "e", "t", "a", "d", "a", "t", "a">>
n_data == <<"d", "a", "t", "a">>
n_rclone_log == <<"r", "c", "l", "o", "n", "e", ".", "l", "o", "g">>
n_bag_info_txt == <<"b", "a", "g", "-", "i", "n", "f", "o", ".", "t", "x", "t">>
n_bagit_txt == <<"b", "a", "g", "i", "t", ".", "t", "x", "t">>
n_manifest_md5_txt == <<"m", "a", "n", "i", "f", "e", "s", "t", "-", "m", "d", "5", ".", "t", "x", "t">>
n_tagmanifest_md5_txt == <<"t", "a", "g", "m", "a", "n", "i", "f", "e", "s", "t", "-", "m", "d", "5", ".", "t", "x", "t">>
n_file_1_txt == <<"f", "i", "l", "e", "_", "1", ".", "t", "x", "t">>
n_folder1 == <<"f", "o", "l", "d", "e", "r", "1">>
n_fileinfolder_txt == <<"f", "i", "l", "e", "i", "n", "f", "o", "l", "d", "e", "r", ".", "t", "x", "t">>
n_extra == <<"e", "x", "t", "r", "a">>
n_notes_txt == <<"n", "o", "t", "e", "s", ".", "t", "x", "t">>
n_DS_Store == <<".", "D", "S", "_", "S", "t", "o", "r", "e">>
n_Thumbs_db == <<"T", "h", "u", "m", "b", "s", ".", "d", "b">>
n_sub == <<"s", "u", "b">>
n_dot == <<".">>
n_Thumbs == <<"T", "h", "u", "m", "b", "s">>
n_ACQ_ == <<"A", "C", "Q", "_">>
n_ACQ_1234_123456 == <<"A", "C", "Q", "_", "1", "2", "3", "4", "_", "1", "2", "3", "4", "5", "6">>
n_acq_1234_123456 == <<"a", "c", "q", "_", "1", "2", "3", "4", "_", "1", "2", "3", "4", "5", "6">>
n_ACQ_123_123456 == <<"A", "C", "Q", "_", "1", "2", "3", "_", "1", "2", "3", "4", "5", "6">>
n_ACQ_1234_1234567 == <<"A", "C", "Q", "_", "1", "2", "3", "4", "_", "1", "2", "3", "4", "5", "6", "7">>

\* str.startswith
startswith(s, prefix) ==
    /\ Len(s) >= Len(prefix)
    /\ SubSeq(s, 1, Len(prefix)) = prefix

IsDigit(c) == c \in {"0", "1", "2", "3", "4", "5", "6", "7", "8", "9"}

\* s[from .. from+n-1] matches [0-9]{n}
DigitRun(s, from, n) == \A i \in from .. (from + n - 1) : IsDigit(s[i])

\* re.fullmatch(r"ACQ_[0-9]{4}_[0-9]{6}", s) is not None
fullmatch_ACQ(s) ==
    /\ Len(s) = 15
    /\ SubSeq(s, 1, 4) = n_ACQ_
    /\ DigitRun(s, 5, 4)
    /\ s[9] = "_"
    /\ DigitRun(s, 10, 6)

---------------------------------------------------------------------------
(* The package directory as pathlib sees it *)

\* The paths a package of the model may hold, relative to the package.
Paths ==
    { <<n_objects>>, <<n_metadata>>, <<n_extra>>, <<n_notes_txt>>, <<n_DS_Store>>,
      <<n_objects, n_data>>, <<n_objects, n_bag_info_txt>>, <<n_objects, n_bagit_txt>>,
      <<n_objects, n_manifest_md5_txt>>, <<n_objects, n_tagmanifest_md5_txt>>,
      <<n_objects, n_data, n_file_1_txt>>, <<n_objects, n_data, n_folder1>>,
      <<n_objects, n_data, n_Thumbs_db>>,
      <<n_objects, n_data, n_folder1, n_fileinfolder_txt>>,
      <<n_metadata, n_rclone_log>>, <<n_metadata, n_notes_txt>>, <<n_metadata, n_sub>>,
      <<n_metadata, n_sub, n_rclone_log>> }

Absent    == [kind |-> "absent", size |-> 0, readable |-> TRUE]
File(n)   == [kind |-> "file", size |-> n, readable |-> TRUE]
Dir       == [kind |-> "dir", size |-> 0, readable |-> TRUE]
LockedDir == [kind |-> "dir", size |-> 0, readable |-> FALSE]

Parent(p) == SubSeq(p, 1, Len(p) - 1)
Name(p)   == p[Len(p)]

\* q lies strictly below p
Below(p, q) == Len(q) > Len(p) /\ SubSeq(q, 1, Len(p)) = p

\* The node at p; the package directory itself, <<>>, is a readable directory.
Node(tree, p) == IF p = <<>> THEN Dir ELSE tree[p]

\* The directories on the way from the package down to p, p excluded.
Ancestors(p) == { SubSeq(p, 1, k) : k \in 0 .. (Len(p) - 1) }

\* Path.exists(): stat() failing with ENOENT or ENOTDIR is False, with EACCES
\* (a directory on the way that may not be searched) it is raised.
exists(tree, p) ==
    IF \E a \in Ancestors(p) : Node(tree, a).kind # "dir"
    THEN [exc |-> "none", value |-> FALSE]
    ELSE IF \E a \in Ancestors(p) : ~Node(tree, a).readable
    THEN [exc |-> "PermissionError", value |-> FALSE]
    ELSE [exc |-> "none", value |-> Node(tree, p).kind # "absent"]

is_dir(tree, p)  == Node(tree, p).kind = "dir"
is_file(tree, p) == Node(tree, p).kind = "file"
st_size(tree, p) == Node(tree, p).size

\* Path.iterdir(): the entries of directory p, or the OSError of os.listdir.
iterdir(tree, p) ==
    CASE Node(tree, p).kind = "absent" -> [exc |-> "FileNotFoundError", value |-> {}]
      [] Node(tree, p).kind = "file"   -> [exc |-> "NotADirectoryError", value |-> {}]
      [] ~Node(tree, p).readable       -> [exc |-> "PermissionError", value |-> {}]
      [] OTHER -> [exc |-> "none",
                   value |-> { q \in Paths : Parent(q) = p /\ tree[q].kind # "absent" }]

\* Path.rglob("*"): every entry below p that is reached through directories
\* that can be listed; a p that is no directory and a directory that cannot be
\* listed yield nothing, without an error.
rglob(tree, p) ==
    { q \in Paths :
        /\ Below(p, q)
        /\ tree[q].kind # "absent"
        /\ \A k \in Len(p) .. (Len(q) - 1) :
              /\ Node(tree, SubSeq(q, 1, k)).kind = "dir"
              /\ Node(tree, SubSeq(q, 1, k)).readable }


---------------------------------------------------------------------------
(* The ten predicates.  Each yields what the call did: the exception it    *)
(* ended in or "none", the boolean it returned, and the records it logged. *)

Returned(b, logs) == [exc |-> "none", value |-> b, logs |-> logs]
Raised(e)         == [exc |-> e, value |-> FALSE, logs |-> <<>>]

\* LOGGER.warning(...) and LOGGER.error(...) in function `test`
Warning(test) == [levelname |-> "WARNING", test |-> test]
Error(test)   == [levelname |-> "ERROR", test |-> test]

package_has_valid_name(pkg) ==
    IF fullmatch_ACQ(pkg.name)
    THEN Returned(TRUE, <<>>)
    ELSE Returned(FALSE, <<Error("package_has_valid_name")>>)

package_has_two_subfolders(pkg) ==
    LET ls == iterdir(pkg.tree, <<>>)
        pkg_folders == { x \in ls.value : is_dir(pkg.tree, x) }
    IN  IF ls.exc # "none" THEN Raised(ls.exc)
        ELSE IF Cardinality(pkg_folders) = 2
        THEN Returned(TRUE, <<>>)
        ELSE Returned(FALSE, <<Error("package_has_two_subfolders")>>)

package_has_valid_subfolder_names(pkg) ==
    LET ls == iterdir(pkg.tree, <<>>)
        expected == {n_objects, n_metadata}
        found == { Name(x) : x \in ls.value }
    IN  IF ls.exc # "none" THEN Raised(ls.exc)
        ELSE IF expected = found
        THEN Returned(TRUE, <<>>)
        ELSE Returned(FALSE, <<Error("package_has_valid_subfolder_names")>>)

package_has_no_hidden_file(pkg) ==
    LET hidden_ls == { h \in rglob(pkg.tree, <<>>) :
                         startswith(Name(h), n_dot) \/ startswith(Name(h), n_Thumbs) }
    IN  IF hidden_ls # {}
        THEN Returned(FALSE, <<Warning("package_has_no_hidden_file")>>)
        ELSE Returned(TRUE, <<>>)

package_has_no_zero_bytes_file(pkg) ==
    LET all_file == { f \in rglob(pkg.tree, <<>>) : is_file(pkg.tree, f) }
        zero_bytes_ls == { f \in all_file : st_size(pkg.tree, f) = 0 }
    IN  IF zero_bytes_ls # {}
        THEN Returned(FALSE, <<Warning("package_has_no_zero_bytes_file")>>)
        ELSE Returned(TRUE, <<>>)

metadata_folder_is_flat(pkg) ==
    LET metadata_path == <<n_metadata>>
        ls == iterdir(pkg.tree, metadata_path)
        md_dir_ls == { x \in ls.value : is_dir(pkg.tree, x) }
    IN  IF ls.exc # "none" THEN Raised(ls.exc)
        ELSE IF md_dir_ls # {}
        THEN Returned(FALSE, <<Error("metadata_folder_is_flat")>>)
        ELSE Returned(TRUE, <<>>)

metadata_folder_has_files(pkg) ==
    LET metadata_path == <<n_metadata>>
        md_files_ls == { x \in rglob(pkg.tree, metadata_path) : is_file(pkg.tree, x) }
    IN  IF md_files_ls # {}
        THEN Returned(TRUE, <<>>)
        ELSE Returned(FALSE, <<Warning("metadata_folder_has_files")>>)

metadata_has_correct_naming_convention(pkg) ==
    LET metadata_path == <<n_metadata>>
        accepted_fn == {n_rclone_log}
        md_files_ls == { x \in rglob(pkg.tree, metadata_path) : is_file(pkg.tree, x) }
        nonconforming == { file \in md_files_ls : Name(file) \notin accepted_fn }
    IN  IF nonconforming # {}
        THEN Returned(FALSE, <<Error("metadata_has_correct_naming_convention")>>)
        ELSE Returned(TRUE, <<>>)

objects_folder_correct_structure(pkg) ==
    LET expected_files == {n_bag_info_txt, n_bagit_txt,
                           n_manifest_md5_txt, n_tagmanifest_md5_txt}
        data_folder == <<n_objects, n_data>>
        expected_paths == {data_folder} \cup { <<n_objects, file>> : file \in expected_files }
        missing == { fp \in expected_paths : ~exists(pkg.tree, fp).value }
    IN  IF \E fp \in expected_paths : exists(pkg.tree, fp).exc # "none"
        THEN Raised("PermissionError")
        ELSE IF missing # {}
        THEN Returned(FALSE, <<Error("objects_folder_correct_structure")>>)
        ELSE Returned(TRUE, <<>>)

objects_folder_has_no_empty_folder(pkg) ==
    LET objects_path == <<n_objects>>
        folder_in_obj == { x \in rglob(pkg.tree, objects_path) : is_dir(pkg.tree, x) }
        empty == { folder \in folder_in_obj : iterdir(pkg.tree, folder).value = {} }
    IN  IF \E folder \in folder_in_obj : iterdir(pkg.tree, folder).exc # "none"
        THEN Raised("PermissionError")
        ELSE IF empty # {}
        THEN Returned(FALSE, <<Error("objects_folder_has_no_empty_folder")>>)
        ELSE Returned(TRUE, <<>>)

---------------------------------------------------------------------------
(* lint_package *)

less_strict_tests ==
    << "package_has_no_hidden_file",
       "package_has_no_zero_bytes_file",
       "metadata_folder_has_files" >>

strict_tests ==
    << "package_has_valid_name",
       "package_has_two_subfolders",
       "package_has_valid_subfolder_names",
       "metadata_folder_is_flat",
       "metadata_has_correct_naming_convention",
       "objects_folder_correct_structure",
       "objects_folder_has_no_empty_folder" >>

\* test(package), for a test of either list
Call(test, pkg) ==
    CASE test = "package_has_no_hidden_file" -> package_has_no_hidden_file(pkg)
      [] test = "package_has_no_zero_bytes_file" -> package_has_no_zero_bytes_file(pkg)
      [] test = "metadata_folder_has_files" -> metadata_folder_has_files(pkg)
      [] test = "package_has_valid_name" -> package_has_valid_name(pkg)
      [] test = "package_has_two_subfolders" -> package_has_two_subfolders(pkg)
      [] test = "package_has_valid_subfolder_names" -> package_has_valid_subfolder_names(pkg)
      [] test = "metadata_folder_is_flat" -> metadata_folder_is_flat(pkg)
      [] test = "metadata_has_correct_naming_convention" ->
             metadata_has_correct_naming_convention(pkg)
      [] test = "objects_folder_correct_structure" -> objects_folder_correct_structure(pkg)
      [] test = "objects_folder_has_no_empty_folder" -> objects_folder_has_no_empty_folder(pkg)

\* What the history variable `calls` keeps of one call.
CallRecord(test, r) == [test |-> test, exc |-> r.exc, value |-> r.value]

\* result = "valid"
LintBegin ==
    /\ lintPc = "begin"
    /\ result' = "valid"
    /\ lintPc' = "less_strict"
    /\ testIdx' = 1
    /\ UNCHANGED <<package, log, calls, argVars, mainVars>>

\* What the body of the first loop assigns to `result` when the test returned b.
LessStrictResult(b, cur) == IF ~b THEN "needs review" ELSE cur

\* A second loop that leaves a "needs review" of the first loop standing.
StrictResult_KeepsReview(b, cur) == IF ~b /\ cur = "valid" THEN "invalid" ELSE cur

\* What the body of the second loop assigns to `result` when the test returned b.
StrictResult(b, cur) == IF ~b THEN "invalid" ELSE cur

\* One iteration of `for test in less_strict_tests`
LessStrictStep ==
    /\ lintPc = "less_strict"
    /\ LET test == less_strict_tests[testIdx]
           r == Call(test, package)
       IN  /\ calls' = Append(calls, CallRecord(test, r))
           /\ log' = log \o r.logs
           /\ IF r.exc # "none"
              THEN /\ lintPc' = "raised"
                   /\ UNCHANGED <<result, testIdx>>
              ELSE /\ result' = LessStrictResult(r.value, result)
                   /\ IF testIdx < Len(less_strict_tests)
                      THEN testIdx' = testIdx + 1 /\ lintPc' = "less_strict"
                      ELSE testIdx' = 1 /\ lintPc' = "strict"
    /\ UNCHANGED <<package, argVars, mainVars>>

\* One iteration of `for test in strict_tests`
StrictStep ==
    /\ lintPc = "strict"
    /\ LET test == strict_tests[testIdx]
           r == Call(test, package)
       IN  /\ calls' = Append(calls, CallRecord(test, r))
           /\ log' = log \o r.logs
           /\ IF r.exc # "none"
              THEN /\ lintPc' = "raised"
                   /\ UNCHANGED <<result, testIdx>>
              ELSE /\ result' = StrictResult(r.value, result)
                   /\ IF testIdx < Len(strict_tests)
                      THEN testIdx' = testIdx + 1 /\ lintPc' = "strict"
                      ELSE testIdx' = 1 /\ lintPc' = "return"
    /\ UNCHANGED <<package, argVars, mainVars>>

\* return result
LintReturn ==
    /\ lintPc = "return"
    /\ lintPc' = "returned"
    /\ UNCHANGED <<package, testIdx, result, log, calls, argVars, mainVars>>

LintNext == LintBegin \/ LessStrictStep \/ StrictStep \/ LintReturn

---------------------------------------------------------------------------
(* The package directories the evaluation is checked on: the good_package  *)
(* fixture of the tests and every directory within MaxEdits changes of it. *)

MaxEdits == 2

good_package ==
    [ name |-> n_ACQ_1234_123456,
      tree |-> [ p \in Paths |->
          CASE p \in { <<n_objects>>, <<n_objects, n_data>>,
                       <<n_objects, n_data, n_folder1>>, <<n_metadata>> } -> Dir
            [] p \in { <<n_objects, n_bag_info_txt>>, <<n_objects, n_bagit_txt>>,
                       <<n_objects, n_manifest_md5_txt>>,
                       <<n_objects, n_tagmanifest_md5_txt>>,
                       <<n_objects, n_data, n_file_1_txt>>,
                       <<n_objects, n_data, n_folder1, n_fileinfolder_txt>> } -> File(19)
            [] p = <<n_metadata, n_rclone_log>> -> File(23)
            [] OTHER -> Absent ] ]

PackageNames ==
    { n_ACQ_1234_123456, n_acq_1234_123456, n_ACQ_123_123456, n_ACQ_1234_1234567 }

\* shutil.rmtree / unlink of p
Remove(tree, p) == [ q \in Paths |-> IF q = p \/ Below(p, q) THEN Absent ELSE tree[q] ]

\* The package directories one change away from pkg.
Edits(pkg) ==
    LET t == pkg.tree
        present == { p \in Paths : t[p].kind # "absent" }
        free == { p \in Paths : t[p].kind = "absent" /\ Node(t, Parent(p)).kind = "dir" }
    IN  { [pkg EXCEPT !.tree = Remove(t, p)] : p \in present }
        \cup { [pkg EXCEPT !.tree[p] = File(0)] : p \in free }
        \cup { [pkg EXCEPT !.tree[p] = File(19)] : p \in free }
        \cup { [pkg EXCEPT !.tree[p] = Dir] : p \in free }
        \cup { [pkg EXCEPT !.tree[p] = File(0)] : p \in { q \in present : t[q].kind = "file" } }
        \cup { [pkg EXCEPT !.tree[p] = LockedDir] : p \in { q \in present : t[q].kind = "dir" } }
        \cup { [pkg EXCEPT !.name = n] : n \in PackageNames }

RECURSIVE PackagesWithin(_)
PackagesWithin(n) ==
    IF n = 0 THEN {good_package}
    ELSE LET prev == PackagesWithin(n - 1)
         IN  prev \cup UNION { Edits(x) : x \in prev }


---------------------------------------------------------------------------
(* Spec: one call of lint_package on any of the package directories *)

NoArgs == [none |-> TRUE, items |-> <<>>]

\* `package` while no call of lint_package is under way.
NoPackage == [name |-> <<>>, tree |-> [p \in Paths |-> Absent]]

Init ==
    /\ package \in PackagesWithin(MaxEdits)
    /\ lintPc = "begin"
    /\ testIdx = 1
    /\ result = "unset"
    /\ log = <<>>
    /\ calls = <<>>
    /\ argv = <<>>
    /\ optIdx = 1
    /\ packages = NoArgs
    /\ mainPc = "none"
    /\ pkgIdx = 1
    /\ counter = 0
    /\ valid = <<>>
    /\ invalid = <<>>
    /\ needs_review = <<>>
    /\ verdicts = <<>>
    /\ stdout = <<>>

Next == LintNext

Spec == Init /\ [][Next]_vars


---------------------------------------------------------------------------
(* Properties of lint_package, checked under Spec *)

Range(seq) == { seq[i] : i \in 1 .. Len(seq) }

AllTests == less_strict_tests \o strict_tests

\* The evaluation has ended: lint_package returned or an exception left it.
LintEnded == lintPc \in {"returned", "raised"}

\* Predicate `test` returns True on the package being evaluated.
Passes(test) == Call(test, package).exc = "none" /\ Call(test, package).value

\* Predicate `test` returns False on the package being evaluated.
Fails(test) == Call(test, package).exc = "none" /\ ~Call(test, package).value

BlockingFailure == \E t \in Range(strict_tests) : Fails(t)
AdvisoryFailure == \E t \in Range(less_strict_tests) : Fails(t)
AllReturnBoolean == \A t \in Range(AllTests) : Call(t, package).exc = "none"

\* The number of records function `test` has logged.
Entries(test) == Cardinality({ i \in 1 .. Len(log) : log[i].test = test })

\* The names of the directories directly inside the package.
TopLevelDirNames == { Name(p) : p \in { q \in Paths : Len(q) = 1 /\ is_dir(package.tree, q) } }

\* C1: on a package on which all ten predicates return a boolean,
\* lint_package returns, and it returns "invalid" iff a blocking predicate
\* fails, "needs review" iff none does and an advisory one fails, "valid" iff
\* no predicate fails; the good_package fixture is "valid".
C1_VerdictIffFailures ==
    /\ (AllReturnBoolean /\ LintEnded) => lintPc = "returned"
    /\ lintPc = "returned" =>
          /\ AllReturnBoolean
          /\ (result = "invalid") <=> BlockingFailure
          /\ (result = "needs review") <=> (~BlockingFailure /\ AdvisoryFailure)
          /\ (result = "valid") <=> (~BlockingFailure /\ ~AdvisoryFailure)
          /\ (package = good_package) => (result = "valid")

\* C1 witness: a returned evaluation in which an advisory and a blocking
\* predicate both failed.
C1_Witness ==
    /\ lintPc = "returned"
    /\ AdvisoryFailure
    /\ BlockingFailure
    /\ result = "invalid"

\* C2: a package without an objects directory, without a metadata directory,
\* or with another directory at its top level gets a verdict, and the verdict
\* is "invalid".
C2_BadSubfoldersInvalid ==
    ( /\ LintEnded
      /\ TopLevelDirNames # {n_objects, n_metadata} )
    => (lintPc = "returned" /\ result = "invalid")

\* C3: when a sidecar file is absent or objects/data is not a directory, the
\* objects-structure predicate, whenever it returns, returns False, and a
\* verdict that is returned is "invalid".
C3_StructureRejected ==
    ( \/ \E f \in {n_bag_info_txt, n_bagit_txt, n_manifest_md5_txt, n_tagmanifest_md5_txt} :
            package.tree[<<n_objects, f>>].kind = "absent"
      \/ ~is_dir(package.tree, <<n_objects, n_data>>) )
    => /\ \A i \in 1 .. Len(calls) :
             calls[i].test = "objects_folder_correct_structure"
                => (calls[i].exc = "none" => ~calls[i].value)
       /\ lintPc = "returned" => result = "invalid"

\* C4: no predicate evaluation ends in an exception, and lint_package always
\* returns a verdict.
C4_NoPredicateRaises ==
    /\ \A i \in 1 .. Len(calls) : calls[i].exc = "none"
    /\ lintPc # "raised"

\* C7: an evaluation logs exactly one record for each predicate that does
\* not pass and none for one that passes, WARNING for the advisory predicates
\* and ERROR for the blocking ones; the verdict is "valid" iff nothing was
\* logged, "needs review" iff only WARNING records were, "invalid" iff an
\* ERROR record was.
C7_OneRecordPerFailure ==
    LintEnded =>
        LET verdict == IF lintPc = "returned" THEN result ELSE "no verdict"
            errors == { i \in 1 .. Len(log) : log[i].levelname = "ERROR" }
        IN  /\ \A t \in Range(AllTests) : Entries(t) = IF Passes(t) THEN 0 ELSE 1
            /\ \A i \in 1 .. Len(log) :
                  log[i].levelname =
                      IF log[i].test \in Range(less_strict_tests) THEN "WARNING" ELSE "ERROR"
            /\ (verdict = "valid") <=> (log = <<>>)
            /\ (verdict = "needs review") <=> (log # <<>> /\ errors = {})
            /\ (verdict = "invalid") <=> (errors # {})

\* C9: the subfolder-names predicate passes iff the names of the directories
\* directly inside the package are exactly objects and metadata; files at the
\* top level do not matter.
C9_SubfolderNamesIgnoreFiles ==
    \A i \in 1 .. Len(calls) :
        calls[i].test = "package_has_valid_subfolder_names"
           => /\ calls[i].exc = "none"
              /\ calls[i].value <=> (TopLevelDirNames = {n_objects, n_metadata})

\* C10: every evaluation invokes each of the ten predicates exactly once,
\* the three advisory ones and then the seven blocking ones.
C10_AllPredicatesInvoked ==
    /\ \A i \in 1 .. Len(calls) : i <= Len(AllTests) /\ calls[i].test = AllTests[i]
    /\ LintEnded => Len(calls) = Len(AllTests)


---------------------------------------------------------------------------
(* The directories the command line can name.  A path of the disk is a     *)
(* string: parse_args never takes one apart.                               *)

DiskPaths ==
    { "in", "in/notes.txt", "in/ACQ_1234_123456", "in/ACQ_1234_123456/objects",
      "in/acq_1234_123456", "in2", "in2/ACQ_1234_123456", "in2/ACQ_123_123456",
      "empty", "file.txt" }

DiskParent(p) ==
    CASE p \in {"in/notes.txt", "in/ACQ_1234_123456", "in/acq_1234_123456"} -> "in"
      [] p \in {"in2/ACQ_1234_123456", "in2/ACQ_123_123456"} -> "in2"
      [] p = "in/ACQ_1234_123456/objects" -> "in/ACQ_1234_123456"
      [] OTHER -> "."

DiskKind(p) ==
    CASE p \notin DiskPaths -> "absent"
      [] p \in {"in/notes.txt", "file.txt"} -> "file"
      [] OTHER -> "dir"

DiskChildren(p) == { c \in DiskPaths : DiskParent(c) = p }

\* The package directories of the disk, as lint_package reads them: a
\* conforming one, one with a lower-case name, one with a zero-byte payload
\* file and one without a metadata directory.
PackageDirs ==
    { "in/ACQ_1234_123456", "in/acq_1234_123456",
      "in2/ACQ_1234_123456", "in2/ACQ_123_123456" }

PackageAt(p) ==
    CASE p = "in/ACQ_1234_123456" -> good_package
      [] p = "in/acq_1234_123456" -> [good_package EXCEPT !.name = n_acq_1234_123456]
      [] p = "in2/ACQ_1234_123456" ->
             [good_package EXCEPT !.tree[<<n_objects, n_data, n_file_1_txt>>] = File(0)]
      [] p = "in2/ACQ_123_123456" ->
             [name |-> n_ACQ_123_123456, tree |-> Remove(good_package.tree, <<n_metadata>>)]

---------------------------------------------------------------------------
(* parse_args *)

MaxArgs == 2

\* The paths a command line of the model may give.
ArgPaths == {"in", "in2", "empty", "file.txt", "missing", "in/ACQ_1234_123456"}

\* One option with its values: --package takes one or more, --directory one.
OptionGroups(k) ==
    { [opt |-> "--package", values |-> v] : v \in [1 .. k -> ArgPaths] }
    \cup (IF k = 1
          THEN { [opt |-> "--directory", values |-> <<d>>] : d \in ArgPaths }
          ELSE {})

\* The command lines that give at most n paths.
RECURSIVE Argvs(_)
Argvs(n) ==
    {<<>>} \cup UNION { { <<g>> \o rest : g \in OptionGroups(k), rest \in Argvs(n - k) }
                        : k \in 1 .. n }

\* extant_dir(p): the path, or argparse.ArgumentTypeError
extant_dir(p) ==
    IF DiskKind(p) # "dir"
    THEN [exc |-> "ArgumentTypeError", value |-> p]
    ELSE [exc |-> "none", value |-> p]

\* A list_of_paths that keeps every child, files too.
child_dirs_KeepsFiles(p) == DiskChildren(p)

\* The children list_of_paths keeps.
child_dirs(p) == { child \in DiskChildren(p) : DiskKind(child) = "dir" }

\* The orders in which iterdir() may yield the members of S.
Orders(S) ==
    { o \in [1 .. Cardinality(S) -> S] : \A i, j \in 1 .. Cardinality(S) : o[i] = o[j] => i = j }

\* action='extend' on dest='packages': a copy of the list so far (of [] when
\* the attribute is still None) extended by the values.
Extend(ns, values) == [none |-> FALSE, items |-> ns.items \o values]

\* parse_args consumes a --package option
ParsePackage ==
    /\ mainPc = "parse_args"
    /\ optIdx <= Len(argv)
    /\ argv[optIdx].opt = "--package"
    /\ LET vals == argv[optIdx].values
       IN  IF \E i \in 1 .. Len(vals) : extant_dir(vals[i]).exc # "none"
           THEN /\ mainPc' = "SystemExit"
                /\ UNCHANGED <<optIdx, packages>>
           ELSE /\ packages' = Extend(packages, [i \in 1 .. Len(vals) |-> extant_dir(vals[i]).value])
                /\ optIdx' = optIdx + 1
                /\ UNCHANGED mainPc
    /\ UNCHANGED <<argv, lintVars, pkgIdx, counter, valid, invalid, needs_review,
                   verdicts, stdout>>

\* parse_args consumes a --directory option: list_of_paths, then extend
ParseDirectory ==
    /\ mainPc = "parse_args"
    /\ optIdx <= Len(argv)
    /\ argv[optIdx].opt = "--directory"
    /\ LET path == extant_dir(argv[optIdx].values[1])
       IN  IF path.exc # "none"
           THEN /\ mainPc' = "SystemExit"
                /\ UNCHANGED <<optIdx, packages>>
           ELSE /\ \E order \in Orders(child_dirs(path.value)) :
                       packages' = Extend(packages, order)
                /\ optIdx' = optIdx + 1
                /\ UNCHANGED mainPc
    /\ UNCHANGED <<argv, lintVars, pkgIdx, counter, valid, invalid, needs_review,
                   verdicts, stdout>>

\* return parser.parse_args()
ParseReturn ==
    /\ mainPc = "parse_args"
    /\ optIdx > Len(argv)
    /\ mainPc' = "configure_logging"
    /\ UNCHANGED <<argVars, lintVars, pkgIdx, counter, valid, invalid, needs_review,
                   verdicts, stdout>>

---------------------------------------------------------------------------
(* main *)

\* args.log_folder: --log_folder has no type=, so argparse hands over a str,
\* the default '.' included.
args_log_folder == [type |-> "str", text |-> "."]

\* left / right, with right a str: defined by pathlib.Path, not by str.
truediv(left) ==
    IF left.type = "Path"
    THEN [exc |-> "none"]
    ELSE [exc |-> "TypeError"]

\* _configure_logging(args.log_folder): log_fpath = log_folder / log_fn
ConfigureLogging ==
    /\ mainPc = "configure_logging"
    /\ IF truediv(args_log_folder).exc # "none"
       THEN mainPc' = "raised"
       ELSE mainPc' = "loop"
    /\ UNCHANGED <<argVars, lintVars, pkgIdx, counter, valid, invalid, needs_review,
                   verdicts, stdout>>

\* A chain that files whatever is not "valid" under invalid.
Bucket_ElseInvalid(res) == IF res = "valid" THEN "valid" ELSE "invalid"

\* The list main appends the name to: if / elif / else on the verdict.
Bucket(res) ==
    IF res = "valid" THEN "valid"
    ELSE IF res = "invalid" THEN "invalid"
    ELSE "needs_review"

\* for package in args.packages: counter += 1; lint_package(package) is entered
LoopNext ==
    /\ mainPc = "loop"
    /\ packages.none \/ pkgIdx <= Len(packages.items)
    /\ IF packages.none
       THEN /\ mainPc' = "raised"
            /\ UNCHANGED <<counter, package, lintPc, calls>>
       ELSE /\ counter' = counter + 1
            /\ package' = PackageAt(packages.items[pkgIdx])
            /\ lintPc' = "begin"
            /\ calls' = <<>>
            /\ mainPc' = "call"
    /\ UNCHANGED <<testIdx, result, log, argVars, pkgIdx, valid, invalid, needs_review,
                   verdicts, stdout>>

\* lint_package returned: the name goes to the list matching the verdict
LoopAppend ==
    /\ mainPc = "call"
    /\ lintPc = "returned"
    /\ LET b == Bucket(result)
       IN  /\ valid' = IF b = "valid" THEN Append(valid, package.name) ELSE valid
           /\ invalid' = IF b = "invalid" THEN Append(invalid, package.name) ELSE invalid
           /\ needs_review' = IF b = "needs_review"
                              THEN Append(needs_review, package.name)
                              ELSE needs_review
    /\ verdicts' = Append(verdicts, result)
    /\ pkgIdx' = pkgIdx + 1
    /\ mainPc' = "loop"
    /\ lintPc' = "idle"
    /\ UNCHANGED <<package, testIdx, result, log, calls, argVars, counter, stdout>>

\* an exception left lint_package: nothing in main catches it
LoopRaise ==
    /\ mainPc = "call"
    /\ lintPc = "raised"
    /\ mainPc' = "raised"
    /\ UNCHANGED <<lintVars, argVars, pkgIdx, counter, valid, invalid, needs_review,
                   verdicts, stdout>>

SummaryLine(kind, names) ==
    IF names # <<>>
    THEN << [line |-> kind, count |-> Len(names), names |-> names] >>
    ELSE <<>>

\* the loop is exhausted: the prints of the summary
PrintSummary ==
    /\ mainPc = "loop"
    /\ ~packages.none
    /\ pkgIdx > Len(packages.items)
    /\ stdout' = stdout
                 \o << [line |-> "total", count |-> counter, names |-> <<>>] >>
                 \o SummaryLine("valid", valid)
                 \o SummaryLine("invalid", invalid)
                 \o SummaryLine("needs_review", needs_review)
    /\ mainPc' = "done"
    /\ UNCHANGED <<lintVars, argVars, pkgIdx, counter, valid, invalid, needs_review,
                   verdicts>>

---------------------------------------------------------------------------
(* MainSpec: main from its first line, on any command line of the model.   *)
(* BatchSpec: the body of main from line 239 on, for any args.packages.    *)

MaxBatch == 3

InitMain ==
    /\ argv \in Argvs(MaxArgs)
    /\ optIdx = 1
    /\ packages = NoArgs
    /\ mainPc = "parse_args"
    /\ package = NoPackage
    /\ lintPc = "idle"
    /\ testIdx = 1
    /\ result = "unset"
    /\ log = <<>>
    /\ calls = <<>>
    /\ pkgIdx = 1
    /\ counter = 0
    /\ valid = <<>>
    /\ invalid = <<>>
    /\ needs_review = <<>>
    /\ verdicts = <<>>
    /\ stdout = <<>>

NextMain == ParsePackage \/ ParseDirectory \/ ParseReturn \/ ConfigureLogging

MainSpec == InitMain /\ [][NextMain]_vars

\* The values args.packages can have: None, or any list of directories.
BatchInputs ==
    {NoArgs} \cup
    UNION { { [none |-> FALSE, items |-> s] : s \in [1 .. n -> PackageDirs] } : n \in 0 .. MaxBatch }

InitBatch ==
    /\ argv = <<>>
    /\ optIdx = 1
    /\ packages \in BatchInputs
    /\ mainPc = "loop"
    /\ package = NoPackage
    /\ lintPc = "idle"
    /\ testIdx = 1
    /\ result = "unset"
    /\ log = <<>>
    /\ calls = <<>>
    /\ pkgIdx = 1
    /\ counter = 0
    /\ valid = <<>>
    /\ invalid = <<>>
    /\ needs_review = <<>>
    /\ verdicts = <<>>
    /\ stdout = <<>>

NextBatch ==
    \/ LoopNext
    \/ LintBegin
    \/ LessStrictStep
    \/ StrictStep
    \/ LintReturn
    \/ LoopAppend
    \/ LoopRaise
    \/ PrintSummary

BatchSpec == InitBatch /\ [][NextBatch]_vars


---------------------------------------------------------------------------
(* Properties of parse_args and main *)

\* How often x occurs in seq.
Count(seq, x) == Cardinality({ i \in 1 .. Len(seq) : seq[i] = x })

\* Every path the command line gives is an existing directory.
AllArgsExist ==
    \A k \in 1 .. Len(argv) : \A i \in 1 .. Len(argv[k].values) :
        DiskKind(argv[k].values[i]) = "dir"

\* How often the first k options of the command line put x on the list: once
\* for each time --package gives it, once for each --directory whose immediate
\* child directory it is.
RECURSIVE ExpectedCount(_, _)
ExpectedCount(x, k) ==
    IF k = 0 THEN 0
    ELSE ExpectedCount(x, k - 1) +
         (IF argv[k].opt = "--package"
          THEN Count(argv[k].values, x)
          ELSE IF DiskKind(x) = "dir" /\ DiskParent(x) = argv[k].values[1] THEN 1 ELSE 0)

\* parse_args has returned its namespace.
ParseReturned == mainPc \in {"configure_logging", "raised"}

\* C5: on existing directories main never ends before the summary is printed.
C5_RunReachesSummary ==
    (argv # <<>> /\ AllArgsExist) => mainPc \notin {"raised", "SystemExit"}

\* C8: the list parse_args returns holds each directory given with --package
\* and exactly the immediate child directories of each --directory, both on
\* the one list; a path that is no existing directory makes parse_args exit
\* instead of returning.
C8_CandidateCollection ==
    /\ mainPc = "parse_args" =>
          \A x \in DiskPaths \cup ArgPaths :
              Count(packages.items, x) = ExpectedCount(x, optIdx - 1)
    /\ ParseReturned =>
          /\ AllArgsExist
          /\ \A x \in DiskPaths \cup ArgPaths :
                Count(packages.items, x) = ExpectedCount(x, Len(argv))
          /\ \A i \in 1 .. Len(packages.items) : DiskKind(packages.items[i]) = "dir"
    /\ mainPc = "SystemExit" => ~AllArgsExist

\* C8 witness: a returned list built from a --directory with a file among its
\* children and a directory below one of them, and from a --package.
C8_Witness ==
    /\ ParseReturned
    /\ \E k \in 1 .. Len(argv) : argv[k].opt = "--directory" /\ argv[k].values = <<"in">>
    /\ \E k \in 1 .. Len(argv) : argv[k].opt = "--package"
    /\ Len(packages.items) = 3
    /\ Count(packages.items, "in/ACQ_1234_123456") = 1
    /\ Count(packages.items, "in/notes.txt") = 0
    /\ Count(packages.items, "in/ACQ_1234_123456/objects") = 0

\* The verdict of a package on which every predicate returns.
VerdictOf(pkg) ==
    IF \E t \in Range(strict_tests) : ~Call(t, pkg).value THEN "invalid"
    ELSE IF \E t \in Range(less_strict_tests) : ~Call(t, pkg).value THEN "needs review"
    ELSE "valid"

\* The names of the first n inputs whose verdict was v, in input order.
RECURSIVE NamesWithVerdict(_, _)
NamesWithVerdict(v, n) ==
    IF n = 0 THEN <<>>
    ELSE NamesWithVerdict(v, n - 1)
         \o (IF verdicts[n] = v THEN <<PackageAt(packages.items[n]).name>> ELSE <<>>)

=============================================================================
